---- MODULE Spec2Model ----
(***************************************************************************)
(* Simple-Game-Mapper: the in-memory map state (RamData), the tile and     *)
(* symbol entities, the save payload codec (MapSaveData,                   *)
(* verify_save_state), the SaveManager and the GUI handlers that mutate    *)
(* RamData (mapper_gui.py).                                                *)
(*                                                                         *)
(* Representation.                                                         *)
(*  - A Python dict is a function whose DOMAIN is the set of keys present; *)
(*    dict.get(k, default) is Get(d, k, default).                          *)
(*  - An optional argument (state: dict = None) is a sequence of length 0  *)
(*    (None) or 1 (the dict).                                              *)
(*  - A raw save record is [fields, mistyped]: `fields` holds the keys     *)
(*    whose values have the expected type, `mistyped` the keys that are    *)
(*    present with a value of another type.                                *)
(*  - A file is [kind, mistyped, doc]; in `doc` a tag set is stored the    *)
(*    way YAML stores a !!set, as a mapping from each element to null.     *)
(***************************************************************************)
EXTENDS Integers, Sequences, FiniteSets, TLC

VARIABLES
  ram_data,     \* the RamData instance (storage.py 96-114)
  config,       \* the ConfigData instance (storage.py 117-127)
  tile_grid,    \* MapContainer._tile_grid: tile index -> active flag of its ToggleButton
  disk,         \* content of the save file written by ram_to_disk
  pc,           \* position of the GUI: "boot", "idle", "loaded", "pressed"
  pending,      \* tile index whose button press was let through (0: none)
  error,        \* exception raised by the last handler ("" when none)
  last_op,      \* the last handler that ran, with its argument
  steps,        \* number of user actions so far
  probe         \* inputs and results of the TileData calls made in TileSpec

vars == <<ram_data, config, tile_grid, disk, pc, pending, error, last_op, steps, probe>>

----------------------------------------------------------------------------
(* Bounds of the model *)

MaxSteps == 3
MaxSpan == 1
MaxFileTiles == 3

(* Program constants *)

EMPTY_TEXTURE == "Empty"

ascii_uppercase ==
  << "A", "B", "C", "D", "E", "F", "G", "H", "I", "J", "K", "L", "M",
     "N", "O", "P", "Q", "R", "S", "T", "U", "V", "W", "X", "Y", "Z" >>

----------------------------------------------------------------------------
(* Python helpers *)

None == << >>
Some(d) == << d >>

EmptyDict == [k \in {} |-> 0]

Get(d, k, default) == IF k \in DOMAIN d THEN d[k] ELSE default

(* range(a, b + 1) as a sequence *)
PyRange(a, b) == [i \in 1..(IF b >= a THEN b - a + 1 ELSE 0) |-> a + i - 1]

(* f"{tile.x}:{tile.y}" *)
CoordKey(x, y) == << x, ":", y >>

----------------------------------------------------------------------------
(* TileData (storage.py 130-180) *)

TileData_from_dict(state) ==
  [ x       |-> Get(state, "x", 0),
    y       |-> Get(state, "y", 0),
    enabled |-> Get(state, "enabled", TRUE),
    tags    |-> Get(state, "tags", {}),
    texture |-> Get(state, "texture", "") ]

(* `if state:` is false for None and for the empty dict alike *)
TileData_init(x, y, enabled, state) ==
  IF state # None /\ DOMAIN state[1] # {}
    THEN TileData_from_dict(state[1])
    ELSE [ x |-> x, y |-> y, enabled |-> enabled, tags |-> {}, texture |-> "" ]

RECURSIVE toggle_each(_, _)
toggle_each(own, tags) ==
  IF tags = {} THEN own
  ELSE LET tag == CHOOSE t \in tags : TRUE
       IN  toggle_each(IF tag \in own THEN own \ {tag} ELSE own \cup {tag},
                       tags \ {tag})

(* apply_letter_tags that replaces the tags by the given letters *)
apply_letter_tags_replace(tile, tags) == [tile EXCEPT !.tags = tags]

(* apply_letter_tags that only adds *)
apply_letter_tags_add(tile, tags) == [tile EXCEPT !.tags = @ \cup tags]

apply_letter_tags(tile, tags) == [tile EXCEPT !.tags = toggle_each(@, tags)]

(* to_dict that leaves out the enabled key *)
TileData_to_dict_no_enabled(tile) ==
  [ x |-> tile.x, y |-> tile.y, tags |-> tile.tags, texture |-> tile.texture ]

TileData_to_dict(tile) ==
  [ x |-> tile.x, y |-> tile.y, enabled |-> tile.enabled,
    tags |-> tile.tags, texture |-> tile.texture ]

----------------------------------------------------------------------------
(* SymbolData (storage.py 183-230).  `bound` tells whether _get_value_func  *)
(* is set; `text` is the text of the Gtk.Entry of the SymbolWidget whose    *)
(* get_value was registered.                                                *)

DictSet(d, k, v) == [q \in DOMAIN d \cup {k} |-> IF q = k THEN v ELSE d[q]]

NewSymbolData(character) ==
  [ character |-> character, default_value |-> "", bound |-> FALSE, text |-> "" ]

(* returns [raised, value]; from_dict reads state["value"] without default *)
SymbolData_init(character, state) ==
  IF state # None /\ DOMAIN state[1] # {}
    THEN IF "value" \in DOMAIN state[1]
           THEN [ raised |-> "",
                  value  |-> [NewSymbolData(character)
                                EXCEPT !.default_value = state[1]["value"]] ]
           ELSE [ raised |-> "KeyError", value |-> NewSymbolData(character) ]
    ELSE [ raised |-> "", value |-> NewSymbolData(character) ]

(* returns [raised, value]; calling None raises TypeError *)
get_value(symbol_data) ==
  IF symbol_data.bound
    THEN [ raised |-> "", value |-> symbol_data.text ]
    ELSE [ raised |-> "TypeError", value |-> "" ]

SymbolData_to_dict(symbol_data) == [ value |-> get_value(symbol_data).value ]

----------------------------------------------------------------------------
(* MapSaveData and verify_save_state (storage.py 248-329) *)

NewMapSaveData ==
  [ tiles |-> << >>, x_start |-> 0, x_end |-> 0, y_start |-> 0, y_end |-> 0,
    symbols |-> EmptyDict ]

IsInstance(state, key) == key \notin state.mistyped

(* verify_save_state with < in place of <= in the two comparisons *)
verify_save_state_strict(state) ==
  /\ IsInstance(state, "tiles")
  /\ IsInstance(state, "symbols")
  /\ IsInstance(state, "x_start")
  /\ IsInstance(state, "x_end")
  /\ IsInstance(state, "y_start")
  /\ IsInstance(state, "y_end")
  /\ Get(state.fields, "x_start", 0) < Get(state.fields, "x_end", 0)
  /\ Get(state.fields, "y_start", 0) < Get(state.fields, "y_end", 0)

verify_save_state(state) ==
  /\ IsInstance(state, "tiles")
  /\ IsInstance(state, "symbols")
  /\ IsInstance(state, "x_start")
  /\ IsInstance(state, "x_end")
  /\ IsInstance(state, "y_start")
  /\ IsInstance(state, "y_end")
  /\ Get(state.fields, "x_start", 0) <= Get(state.fields, "x_end", 0)
  /\ Get(state.fields, "y_start", 0) <= Get(state.fields, "y_end", 0)

(* returns [raised, value] *)
MapSaveData_from_dict(state) ==
  IF verify_save_state(state)
    THEN LET raw_tiles   == Get(state.fields, "tiles", << >>)
             raw_symbols == Get(state.fields, "symbols", EmptyDict)
             decoded     == [c \in DOMAIN raw_symbols |->
                               SymbolData_init(c, Some(raw_symbols[c]))]
         IN  IF \E c \in DOMAIN decoded : decoded[c].raised # ""
               THEN [ raised |-> "KeyError", value |-> NewMapSaveData ]
               ELSE [ raised |-> "",
                      value  |->
                        [ tiles   |-> [i \in DOMAIN raw_tiles |->
                                         TileData_init(0, 0, FALSE, Some(raw_tiles[i]))],
                          x_start |-> Get(state.fields, "x_start", 0),
                          x_end   |-> Get(state.fields, "x_end", 0),
                          y_start |-> Get(state.fields, "y_start", 0),
                          y_end   |-> Get(state.fields, "y_end", 0),
                          symbols |-> [c \in DOMAIN decoded |-> decoded[c].value] ] ]
    ELSE [ raised |-> "", value |-> NewMapSaveData ]

(* `if state:` skips from_dict for None and for the empty dict; a non-empty *)
(* value that is no dict has no .get                                        *)
MapSaveData_init(raw) ==
  CASE raw.kind = "none" -> [ raised |-> "", value |-> NewMapSaveData ]
    [] raw.kind = "list" -> [ raised |-> "AttributeError", value |-> NewMapSaveData ]
    [] OTHER ->
         IF DOMAIN raw.fields = {} /\ raw.mistyped = {}
           THEN [ raised |-> "", value |-> NewMapSaveData ]
           ELSE MapSaveData_from_dict(raw)

MapSaveData_to_dict(map_save_data) ==
  [ x_start |-> map_save_data.x_start, x_end |-> map_save_data.x_end,
    y_start |-> map_save_data.y_start, y_end |-> map_save_data.y_end,
    tiles   |-> [i \in DOMAIN map_save_data.tiles |->
                   TileData_to_dict(map_save_data.tiles[i])],
    symbols |-> [c \in DOMAIN map_save_data.symbols |->
                   SymbolData_to_dict(map_save_data.symbols[c])] ]

----------------------------------------------------------------------------
(* PyYAML as used by SaveManager: a Python set is written as a !!set, a     *)
(* mapping from each element to null, and read back as a set.               *)

yaml_represent_tile(raw_tile) ==
  [k \in DOMAIN raw_tile |->
     IF k = "tags" THEN [e \in raw_tile[k] |-> "null"] ELSE raw_tile[k]]

yaml_construct_tile(node) ==
  [k \in DOMAIN node |-> IF k = "tags" THEN DOMAIN node[k] ELSE node[k]]

yaml_dump(data) ==
  [ kind |-> "dict", mistyped |-> {},
    doc  |-> [data EXCEPT !.tiles = [i \in DOMAIN @ |-> yaml_represent_tile(@[i])]] ]

(* returns [raised, value]; value is [kind, fields, mistyped] *)
yaml_load(file) ==
  CASE file.kind = "garbage" ->
         [ raised |-> "YAMLError",
           value  |-> [ kind |-> "none", fields |-> EmptyDict, mistyped |-> {} ] ]
    [] file.kind \in {"none", "list"} ->
         [ raised |-> "",
           value  |-> [ kind |-> file.kind, fields |-> EmptyDict, mistyped |-> {} ] ]
    [] OTHER ->
         [ raised |-> "",
           value  |->
             [ kind     |-> "dict",
               mistyped |-> file.mistyped,
               fields   |->
                 [k \in DOMAIN file.doc |->
                    IF k = "tiles"
                      THEN [i \in DOMAIN file.doc[k] |-> yaml_construct_tile(file.doc[k][i])]
                      ELSE file.doc[k]] ] ]

----------------------------------------------------------------------------
(* SaveManager (storage.py 332-390) *)

(* widen_bounds with each elif comparing against the start bound *)
widen_bounds_elif_start(map_save_data, tile) ==
  LET mx == IF tile.x < map_save_data.x_start
              THEN [map_save_data EXCEPT !.x_start = tile.x]
              ELSE IF tile.x > map_save_data.x_start
                     THEN [map_save_data EXCEPT !.x_end = tile.x]
                     ELSE map_save_data
  IN  IF tile.y < mx.y_start
        THEN [mx EXCEPT !.y_start = tile.y]
        ELSE IF tile.y > mx.y_start
               THEN [mx EXCEPT !.y_end = tile.y]
               ELSE mx

(* lines 352-359: the if / elif pairs that widen the payload's bounds *)
widen_bounds(map_save_data, tile) ==
  LET mx == IF tile.x < map_save_data.x_start
              THEN [map_save_data EXCEPT !.x_start = tile.x]
              ELSE IF tile.x > map_save_data.x_end
                     THEN [map_save_data EXCEPT !.x_end = tile.x]
                     ELSE map_save_data
  IN  IF tile.y < mx.y_start
        THEN [mx EXCEPT !.y_start = tile.y]
        ELSE IF tile.y > mx.y_end
               THEN [mx EXCEPT !.y_end = tile.y]
               ELSE mx

(* collect_tile without the test of tile.enabled *)
collect_tile_any(map_save_data, tile) ==
  widen_bounds([map_save_data EXCEPT !.tiles = Append(@, tile)], tile)

(* lines 349-351: one pass of the loop over ram_data.tiles *)
collect_tile(map_save_data, tile) ==
  IF tile.enabled
    THEN widen_bounds([map_save_data EXCEPT !.tiles = Append(@, tile)], tile)
    ELSE map_save_data

RECURSIVE collect_tiles(_, _, _)
collect_tiles(map_save_data, tiles, i) ==
  IF i > Len(tiles) THEN map_save_data
  ELSE collect_tiles(collect_tile(map_save_data, tiles[i]), tiles, i + 1)

(* collect_symbol without the test of get_value() *)
collect_symbol_any(symbol_data) == TRUE

(* lines 361-364: `if symbol_data.get_value():` keeps the non-empty values *)
collect_symbol(symbol_data) == get_value(symbol_data).value # ""

collect_symbols(symbols) ==
  LET kept == { c \in DOMAIN symbols : collect_symbol(symbols[c]) }
  IN  [c \in kept |-> symbols[c]]

(* ram_to_disk that widens the bounds of RamData instead of those of a      *)
(* fresh MapSaveData                                                        *)
ram_to_disk_in_place(ram, writable) ==
  LET map_save_data ==
        [collect_tiles(NewMapSaveData, ram.tiles, 1)
           EXCEPT !.symbols = collect_symbols(ram.symbols)]
      nofile == [ kind |-> "missing", mistyped |-> {}, doc |-> EmptyDict ]
      widened == [ram EXCEPT !.x_start = map_save_data.x_start,
                             !.x_end   = map_save_data.x_end,
                             !.y_start = map_save_data.y_start,
                             !.y_end   = map_save_data.y_end]
  IN  IF \E c \in DOMAIN ram.symbols : get_value(ram.symbols[c]).raised # ""
        THEN [ raised |-> "TypeError", wrote |-> FALSE, file |-> nofile, ram |-> widened ]
        ELSE IF ~writable
               THEN [ raised |-> "OSError", wrote |-> FALSE, file |-> nofile,
                      ram |-> widened ]
               ELSE [ raised |-> "", wrote |-> TRUE, ram |-> widened,
                      file |-> yaml_dump(MapSaveData_to_dict(map_save_data)) ]

(* returns [raised, wrote, file, ram]: the symbol loop calls get_value on    *)
(* every entry before the file is opened; the tiles and symbols are         *)
(* collected into a fresh MapSaveData and no field of RamData is assigned   *)
ram_to_disk(ram, writable) ==
  LET map_save_data ==
        [collect_tiles(NewMapSaveData, ram.tiles, 1)
           EXCEPT !.symbols = collect_symbols(ram.symbols)]
      nofile == [ kind |-> "missing", mistyped |-> {}, doc |-> EmptyDict ]
  IN  IF \E c \in DOMAIN ram.symbols : get_value(ram.symbols[c]).raised # ""
        THEN [ raised |-> "TypeError", wrote |-> FALSE, file |-> nofile, ram |-> ram ]
        ELSE IF ~writable
               THEN [ raised |-> "OSError", wrote |-> FALSE, file |-> nofile, ram |-> ram ]
               ELSE [ raised |-> "", wrote |-> TRUE, ram |-> ram,
                      file |-> yaml_dump(MapSaveData_to_dict(map_save_data)) ]

(* lines 387-390; the values are Python list indices, counted from 0 *)
RECURSIVE index_tiles(_, _, _)
index_tiles(reference, tiles, i) ==
  IF i > Len(tiles) THEN reference
  ELSE index_tiles(DictSet(reference, CoordKey(tiles[i].x, tiles[i].y), i - 1),
                   tiles, i + 1)

(* rebuild_tile_reference without save_tile_reference.clear() *)
rebuild_without_clear(save_tile_reference, tiles) ==
  index_tiles(save_tile_reference, tiles, 1)

rebuild_tile_reference(save_tile_reference, tiles) ==
  index_tiles(EmptyDict, tiles, 1)

(* replace_ram without the assignment of symbols *)
replace_ram_keep_symbols(ram, map_save_data) ==
  [ram EXCEPT !.tiles   = map_save_data.tiles,
              !.x_start = map_save_data.x_start,
              !.x_end   = map_save_data.x_end,
              !.y_start = map_save_data.y_start,
              !.y_end   = map_save_data.y_end]

(* lines 380-385 *)
replace_ram(ram, map_save_data) ==
  [ram EXCEPT !.tiles   = map_save_data.tiles,
              !.x_start = map_save_data.x_start,
              !.x_end   = map_save_data.x_end,
              !.y_start = map_save_data.y_start,
              !.y_end   = map_save_data.y_end,
              !.symbols = map_save_data.symbols]

(* disk_to_ram with save_tile_reference.clear() moved before open() *)
disk_to_ram_clear_first(ram, file) ==
  LET cleared == [ram EXCEPT !.save_tile_reference = EmptyDict]
  IN  IF file.kind = "missing"
        THEN [ raised |-> "FileNotFoundError", ram |-> cleared ]
        ELSE LET raw == yaml_load(file)
             IN  IF raw.raised # ""
                   THEN [ raised |-> raw.raised, ram |-> cleared ]
                   ELSE LET map_save_data == MapSaveData_init(raw.value)
                        IN  IF map_save_data.raised # ""
                              THEN [ raised |-> map_save_data.raised, ram |-> cleared ]
                              ELSE LET replaced == replace_ram(ram, map_save_data.value)
                                   IN  [ raised |-> "",
                                         ram |-> [replaced EXCEPT !.save_tile_reference =
                                                    rebuild_tile_reference(@, replaced.tiles)] ]

(* returns [raised, ram] *)
disk_to_ram(ram, file) ==
  IF file.kind = "missing"
    THEN [ raised |-> "FileNotFoundError", ram |-> ram ]
    ELSE LET raw == yaml_load(file)
         IN  IF raw.raised # ""
               THEN [ raised |-> raw.raised, ram |-> ram ]
               ELSE LET map_save_data == MapSaveData_init(raw.value)
                    IN  IF map_save_data.raised # ""
                          THEN [ raised |-> map_save_data.raised, ram |-> ram ]
                          ELSE LET replaced == replace_ram(ram, map_save_data.value)
                               IN  [ raised |-> "",
                                     ram |-> [replaced EXCEPT !.save_tile_reference =
                                                rebuild_tile_reference(@, replaced.tiles)] ]

----------------------------------------------------------------------------
(* TextureManager (mapper_gui.py 9-59) and TextureData (storage.py 233-245) *)

TextureData(name, image_path) ==
  [ name |-> name, class_name |-> << "texture_", name >>, path |-> image_path,
    css  |-> [ selector |-> << "texture_", name >>, body |-> "background-image" ] ]

initialize_empty_background(textures) ==
  DictSet(textures, EMPTY_TEXTURE,
          [TextureData(EMPTY_TEXTURE, "empty") EXCEPT !.css.body = ""])

process_file(textures, file) ==
  DictSet(textures, file.stem, TextureData(file.stem, file.absolute))

RECURSIVE process_files(_, _)
process_files(textures, listing) ==
  IF listing = << >> THEN textures
  ELSE process_files(IF Head(listing).is_file
                       THEN process_file(textures, Head(listing))
                       ELSE textures,
                     Tail(listing))

TextureManager_load(ram, listing) ==
  [ram EXCEPT !.textures = process_files(initialize_empty_background(@), listing)]

----------------------------------------------------------------------------
(* MapContainer (mapper_gui.py 389-616).  A GUI state `st` is [ram, grid]:  *)
(* grid maps the position of a tile in ram.tiles to get_active() of the     *)
(* TileButton attached for it.                                              *)

(* lines 640-657: setup_button calls set_active(True) for an enabled tile,  *)
(* which emits "toggled" and runs _on_toggle with get_active() = True; its  *)
(* update_tooltip reads the symbols of the tile's tags, letters of A-Z that *)
(* the symbol panel has bound before the map is rendered                    *)
setup_button(st, pos) ==
  IF st.ram.tiles[pos].enabled
    THEN [ ram  |-> [st.ram EXCEPT !.tiles[pos].enabled = TRUE],
           grid |-> DictSet(st.grid, pos, TRUE) ]
    ELSE [ st EXCEPT !.grid = DictSet(@, pos, FALSE) ]

(* lines 512-528, tile_data = None *)
add_tile_button(st, x, y) ==
  LET appended == [st EXCEPT !.ram.tiles = Append(@, TileData_init(x, y, FALSE, None))]
  IN  setup_button(appended, Len(appended.ram.tiles))

(* lines 512-528, tile_data = ram_data.tiles[save_tile_index] *)
add_tile_button_for(st, save_tile_index) == setup_button(st, save_tile_index + 1)

(* lines 499-510 *)
clear_layout(st, clear_ram) ==
  [ ram  |-> IF clear_ram THEN [st.ram EXCEPT !.tiles = << >>] ELSE st.ram,
    grid |-> EmptyDict ]

(* the coordinates visited by `for x in range(..): for y in range(..):` *)
GridCoords(x_start, x_end, y_start, y_end) ==
  LET xs == PyRange(x_start, x_end)
      ys == PyRange(y_start, y_end)
  IN  [k \in 1..(Len(xs) * Len(ys)) |->
         << xs[((k - 1) \div Len(ys)) + 1], ys[((k - 1) % Len(ys)) + 1] >>]

RECURSIVE add_tile_buttons(_, _)
add_tile_buttons(st, coords) ==
  IF coords = << >> THEN st
  ELSE add_tile_buttons(add_tile_button(st, Head(coords)[1], Head(coords)[2]),
                        Tail(coords))

(* lines 460-479 *)
initialize_grid(st, x_start, x_end, y_start, y_end) ==
  LET cleared == clear_layout(st, TRUE)
      sized   == [cleared EXCEPT !.ram.x_start = x_start, !.ram.x_end = x_end,
                                 !.ram.y_start = y_start, !.ram.y_end = y_end]
  IN  add_tile_buttons(sized, GridCoords(x_start, x_end, y_start, y_end))

(* lines 452-458 *)
initialize_default_grid(st, cfg) ==
  initialize_grid(st, cfg.default_x_start, cfg.default_x_end,
                  cfg.default_y_start, cfg.default_y_end)

(* place_from_ram that never looks into save_tile_reference *)
place_from_ram_new(st, x, y) == add_tile_button(st, x, y)

(* lines 489-495: one pass of the loop body *)
place_from_ram(st, x, y) ==
  IF CoordKey(x, y) \in DOMAIN st.ram.save_tile_reference
    THEN add_tile_button_for(st, st.ram.save_tile_reference[CoordKey(x, y)])
    ELSE add_tile_button(st, x, y)

RECURSIVE place_all_from_ram(_, _)
place_all_from_ram(st, coords) ==
  IF coords = << >> THEN st
  ELSE place_all_from_ram(place_from_ram(st, Head(coords)[1], Head(coords)[2]),
                          Tail(coords))

(* lines 481-497 *)
initialize_from_ram(st) ==
  place_all_from_ram(clear_layout(st, FALSE),
                     GridCoords(st.ram.x_start, st.ram.x_end,
                                st.ram.y_start, st.ram.y_end))

RECURSIVE add_line(_, _, _, _)
add_line(st, fixed, along, horizontal) ==
  IF along = << >> THEN st
  ELSE add_line(IF horizontal THEN add_tile_button(st, Head(along), fixed)
                              ELSE add_tile_button(st, fixed, Head(along)),
                fixed, Tail(along), horizontal)

(* add_top that moves y_start the wrong way *)
add_top_downward(st) ==
  LET moved == [st EXCEPT !.ram.y_start = @ + 1]
  IN  add_line(moved, moved.ram.y_start, PyRange(moved.ram.x_start, moved.ram.x_end), TRUE)

(* lines 531-580 *)
add_top(st) ==
  LET moved == [st EXCEPT !.ram.y_start = @ - 1]
  IN  add_line(moved, moved.ram.y_start, PyRange(moved.ram.x_start, moved.ram.x_end), TRUE)

(* add_bottom that walks range(x_start, x_end), one column short *)
add_bottom_short(st) ==
  LET moved == [st EXCEPT !.ram.y_end = @ + 1]
  IN  add_line(moved, moved.ram.y_end, PyRange(moved.ram.x_start, moved.ram.x_end - 1), TRUE)

add_bottom(st) ==
  LET moved == [st EXCEPT !.ram.y_end = @ + 1]
  IN  add_line(moved, moved.ram.y_end, PyRange(moved.ram.x_start, moved.ram.x_end), TRUE)

add_left(st) ==
  LET moved == [st EXCEPT !.ram.x_start = @ - 1]
  IN  add_line(moved, moved.ram.x_start, PyRange(moved.ram.y_start, moved.ram.y_end), FALSE)

add_right(st) ==
  LET moved == [st EXCEPT !.ram.x_end = @ + 1]
  IN  add_line(moved, moved.ram.x_end, PyRange(moved.ram.y_start, moved.ram.y_end), FALSE)

----------------------------------------------------------------------------
(* OptionSideBar and SymbolWidget (mapper_gui.py 744-895) *)

(* SymbolWidget that does not put default_value into its entry *)
SymbolWidget_blank(symbol_data) == [symbol_data EXCEPT !.bound = TRUE]

(* lines 853-877: the widget registers its get_value and shows default_value *)
SymbolWidget(symbol_data) ==
  [symbol_data EXCEPT !.bound = TRUE, !.text = symbol_data.default_value]

(* lines 813-827 *)
add_symbol_row(symbols, character, has_data) ==
  IF has_data
    THEN [symbols EXCEPT ![character] = SymbolWidget(@)]
    ELSE DictSet(symbols, character, SymbolWidget(NewSymbolData(character)))

RECURSIVE add_symbol_rows(_, _, _)
add_symbol_rows(symbols, i, from_ram) ==
  IF i > Len(ascii_uppercase) THEN symbols
  ELSE add_symbol_rows(
         add_symbol_row(symbols, ascii_uppercase[i],
                        from_ram /\ ascii_uppercase[i] \in DOMAIN symbols),
         i + 1, from_ram)

(* initialize_symbols that calls clear_symbols(clear_ram=False) *)
initialize_symbols_keep(ram) == [ram EXCEPT !.symbols = add_symbol_rows(@, 1, FALSE)]

(* lines 792-800 *)
initialize_symbols(ram) == [ram EXCEPT !.symbols = add_symbol_rows(EmptyDict, 1, FALSE)]

(* lines 802-811 *)
initialize_symbols_from_ram(ram) == [ram EXCEPT !.symbols = add_symbol_rows(@, 1, TRUE)]

----------------------------------------------------------------------------
(* TileButton (mapper_gui.py 619-741) *)

(* lines 728-737: returns the exception raised, "" when none *)
update_tooltip(ram, tile) ==
  IF \E tag \in tile.tags : tag \notin DOMAIN ram.symbols THEN "KeyError"
  ELSE IF \E tag \in tile.tags : get_value(ram.symbols[tag]).raised # "" THEN "TypeError"
  ELSE ""

(* on_press with `if` in place of `elif` before the texture branches: a     *)
(* press with held letters also paints the selected texture                 *)
on_press_paint_too(st, pos) ==
  LET ram   == st.ram
      tile  == ram.tiles[pos]
      tagged   == [ram EXCEPT !.tiles[pos] =
                     [apply_letter_tags(@, ram.held_buttons)
                        EXCEPT !.texture = IF ram.selected_texture # EMPTY_TEXTURE
                                             THEN ram.selected_texture ELSE @]]
      textured == [ram EXCEPT !.tiles[pos].texture = ram.selected_texture]
  IN  IF st.grid[pos]
        THEN IF ram.held_buttons # {}
               THEN [ ram |-> tagged, raised |-> update_tooltip(tagged, tagged.tiles[pos]),
                      return_value |-> update_tooltip(tagged, tagged.tiles[pos]) = "" ]
             ELSE IF ram.selected_texture # EMPTY_TEXTURE
               THEN [ ram |-> textured, raised |-> "", return_value |-> TRUE ]
             ELSE IF tile.texture # "" /\ tile.texture # EMPTY_TEXTURE
               THEN [ ram |-> textured, raised |-> "", return_value |-> TRUE ]
             ELSE [ ram |-> ram, raised |-> "", return_value |-> FALSE ]
        ELSE IF ram.held_buttons # {}
               THEN [ ram |-> tagged, raised |-> update_tooltip(tagged, tagged.tiles[pos]),
                      return_value |-> FALSE ]
             ELSE IF ram.selected_texture # EMPTY_TEXTURE
               THEN [ ram |-> textured, raised |-> "", return_value |-> FALSE ]
             ELSE [ ram |-> ram, raised |-> "", return_value |-> FALSE ]

(* lines 660-695: returns [ram, return_value, raised] *)
on_press(st, pos) ==
  LET ram   == st.ram
      tile  == ram.tiles[pos]
      tagged   == [ram EXCEPT !.tiles[pos] = apply_letter_tags(@, ram.held_buttons)]
      textured == [ram EXCEPT !.tiles[pos].texture = ram.selected_texture]
  IN  IF st.grid[pos]
        THEN IF ram.held_buttons # {}
               THEN [ ram |-> tagged, raised |-> update_tooltip(tagged, tagged.tiles[pos]),
                      return_value |-> update_tooltip(tagged, tagged.tiles[pos]) = "" ]
             ELSE IF ram.selected_texture # EMPTY_TEXTURE
               THEN [ ram |-> textured, raised |-> "", return_value |-> TRUE ]
             ELSE IF tile.texture # "" /\ tile.texture # EMPTY_TEXTURE
               THEN [ ram |-> textured, raised |-> "", return_value |-> TRUE ]
             ELSE [ ram |-> ram, raised |-> "", return_value |-> FALSE ]
        ELSE IF ram.held_buttons # {}
               THEN [ ram |-> tagged, raised |-> update_tooltip(tagged, tagged.tiles[pos]),
                      return_value |-> FALSE ]
             ELSE IF ram.selected_texture # EMPTY_TEXTURE
               THEN [ ram |-> textured, raised |-> "", return_value |-> FALSE ]
             ELSE [ ram |-> ram, raised |-> "", return_value |-> FALSE ]

(* on_toggle without tags.clear() *)
on_toggle_keep_tags(st, pos) ==
  [st EXCEPT !.grid[pos] = ~st.grid[pos], !.ram.tiles[pos].enabled = ~st.grid[pos]]

(* lines 697-709, run after the ToggleButton flipped its active state *)
on_toggle(st, pos) ==
  LET active == ~st.grid[pos]
      set    == [st EXCEPT !.grid[pos] = active, !.ram.tiles[pos].enabled = active]
  IN  IF ~active THEN [set EXCEPT !.ram.tiles[pos].tags = {}] ELSE set

----------------------------------------------------------------------------
(* The environment: configurations, textures directory, key strings, save   *)
(* locations and the save files found on disk besides the one the program   *)
(* writes.                                                                  *)

Config(xs, xe, ys, ye) ==
  [ default_x_start |-> xs, default_x_end |-> xe,
    default_y_start |-> ys, default_y_end |-> ye ]

Configs == { Config(0, 0, 0, 0), Config(1, 1, 0, 0) }

TextureDir ==
  << [ stem |-> "grass", absolute |-> "/app/textures/grass.png", is_file |-> TRUE ],
     [ stem |-> "old", absolute |-> "/app/textures/old", is_file |-> FALSE ] >>

(* event.string of the keys typed: two ASCII letters and one letter of a     *)
(* national keyboard layout                                                 *)
KeyStrings == { "a", "B", "é" }

(* str.upper *)
Upper(string) ==
  CASE string = "a" -> "A" [] string = "b" -> "B" [] string = "é" -> "É"
    [] OTHER -> string

(* str.isalpha: true of every Unicode letter *)
IsAlpha(string) == string \in { "a", "b", "A", "B", "é", "É" }

EditLetters == { "A" }
EditTexts == { "", "door" }

SavePath == [ folder |-> "/app/saves", name |-> "map_save.yaml", writable |-> TRUE ]
LockedPath == [ folder |-> "/proc", name |-> "map_save.yaml", writable |-> FALSE ]
SavePaths == { SavePath, LockedPath }

YamlSet(elements) == [e \in elements |-> "null"]

DictFile(mistyped, doc) == [ kind |-> "dict", mistyped |-> mistyped, doc |-> doc ]
OtherFile(kind) == [ kind |-> kind, mistyped |-> {}, doc |-> EmptyDict ]

ExternalFiles ==
  [ name \in { "bad_bounds.yaml", "mistyped.yaml", "twins.yaml", "sparse.yaml",
               "novalue.yaml", "legend.yaml", "empty.yaml", "list.yaml",
               "garbage.yaml", "absent.yaml" } |->
    CASE name = "bad_bounds.yaml" ->
           DictFile({}, [ x_start |-> 2, x_end |-> 1,
                          tiles |-> << [ x |-> 1, y |-> 0, enabled |-> TRUE,
                                         tags |-> YamlSet({"A"}), texture |-> "grass" ] >> ])
      [] name = "mistyped.yaml" ->
           DictFile({"tiles"}, [ x_end |-> 1 ])
      [] name = "twins.yaml" ->
           DictFile({}, [ x_start |-> 0, x_end |-> 1, y_start |-> 0, y_end |-> 0,
                          tiles |-> << [ x |-> 1, y |-> 0, enabled |-> TRUE,
                                         tags |-> YamlSet({"A"}), texture |-> "" ],
                                       [ x |-> 0, y |-> 0, enabled |-> TRUE,
                                         tags |-> YamlSet({"A"}), texture |-> "grass" ],
                                       [ x |-> 1, y |-> 0, enabled |-> TRUE,
                                         tags |-> YamlSet({"B"}), texture |-> "" ] >>,
                          symbols |-> [ A |-> [ value |-> "door" ] ] ])
      [] name = "sparse.yaml" ->
           DictFile({}, [ x_end |-> 1,
                          tiles |-> << [ x |-> 1, tags |-> YamlSet({"B"}) ],
                                       EmptyDict >>,
                          symbols |-> [ B |-> EmptyDict ] ])
      [] name = "novalue.yaml" ->
           DictFile({}, [ x_end |-> 1,
                          symbols |-> [ A |-> [ note |-> "door" ] ] ])
      [] name = "legend.yaml" ->
           DictFile({}, [ symbols |-> [ a |-> [ value |-> "door" ] ] ])
      [] name = "empty.yaml" -> OtherFile("none")
      [] name = "list.yaml" -> OtherFile("list")
      [] name = "garbage.yaml" -> OtherFile("garbage")
      [] OTHER -> OtherFile("missing") ]

MapsFolder == "/maps"

(* the files the Load dialog can pick: the program's own save and the others *)
LoadPaths ==
  { [ folder |-> SavePath.folder, name |-> SavePath.name ] }
    \cup { [ folder |-> MapsFolder, name |-> n ] : n \in DOMAIN ExternalFiles }

FileAt(path, saved) == IF path.folder = MapsFolder THEN ExternalFiles[path.name] ELSE saved

----------------------------------------------------------------------------
(* Initial state: SimpleGameMapper.__init__ (simple_game_mapper.py 6-12)    *)

RamData ==
  [ tiles |-> << >>, symbols |-> EmptyDict, textures |-> EmptyDict,
    x_start |-> 0, x_end |-> 0, y_start |-> 0, y_end |-> 0,
    save_tile_reference |-> EmptyDict, held_buttons |-> {},
    selected_texture |-> EMPTY_TEXTURE,
    last_save_folder |-> "", last_save_name |-> "" ]

Op(name, tile, key) == [ name |-> name, tile |-> tile, key |-> key ]

NoProbe == [ call |-> "", tile |-> TileData_init(0, 0, FALSE, None),
             origin |-> TileData_init(0, 0, FALSE, None),
             args |-> << >>, record |-> EmptyDict ]

Init ==
  /\ ram_data = RamData
  /\ config \in Configs
  /\ tile_grid = EmptyDict
  /\ disk = OtherFile("missing")
  /\ pc = "boot"
  /\ pending = 0
  /\ error = ""
  /\ last_op = Op("init", 0, "")
  /\ steps = 0
  /\ probe = NoProbe

GuiState == [ ram |-> ram_data, grid |-> tile_grid ]

----------------------------------------------------------------------------
(* Actions *)

(* SimpleGameMapper.load: textures.load, then MainLayout.setup *)
Startup ==
  /\ pc = "boot"
  /\ LET textured == [ ram  |-> TextureManager_load(ram_data, TextureDir),
                       grid |-> tile_grid ]
         mapped   == initialize_default_grid(textured, config)
     IN  /\ ram_data' = initialize_symbols(mapped.ram)
         /\ tile_grid' = mapped.grid
  /\ pc' = "idle"
  /\ error' = ""
  /\ last_op' = Op("startup", 0, "")
  /\ UNCHANGED << config, disk, pending, steps, probe >>

Idle == pc = "idle" /\ pending = 0 /\ steps < MaxSteps

(* TopMenuBar._on_new_pressed, answer Yes *)
New ==
  /\ Idle
  /\ LET mapped == initialize_default_grid(GuiState, config)
     IN  /\ ram_data' = initialize_symbols(mapped.ram)
         /\ tile_grid' = mapped.grid
  /\ error' = ""
  /\ last_op' = Op("new", 0, "")
  /\ steps' = steps + 1
  /\ UNCHANGED << config, disk, pc, pending, probe >>

(* TopMenuBar._on_save_pressed, a file chosen *)
Save(path) ==
  /\ Idle
  /\ LET named  == [ram_data EXCEPT !.last_save_folder = path.folder,
                                    !.last_save_name = path.name]
         result == ram_to_disk(named, path.writable)
     IN  /\ ram_data' = result.ram
         /\ disk' = IF result.wrote THEN result.file ELSE disk
         /\ error' = result.raised
  /\ last_op' = Op("save", 0, path.folder)
  /\ steps' = steps + 1
  /\ UNCHANGED << config, tile_grid, pc, pending, probe >>

(* TopMenuBar._on_load_pressed up to the return of SaveManager.disk_to_ram; *)
(* when it raises the handler ends there                                    *)
LoadFile(path, file) ==
  /\ Idle
  /\ LET named  == [ram_data EXCEPT !.last_save_folder = path.folder,
                                    !.last_save_name = path.name]
         result == disk_to_ram(named, file)
     IN  /\ ram_data' = result.ram
         /\ error' = result.raised
         /\ pc' = IF result.raised = "" THEN "loaded" ELSE "idle"
  /\ last_op' = Op("load", 0, path.name)
  /\ steps' = steps + 1
  /\ UNCHANGED << config, tile_grid, disk, pending, probe >>

Load(path) == LoadFile(path, FileAt(path, disk))

(* the rest of _on_load_pressed: _symbol_load_func(), then _map_load_func() *)
Render ==
  /\ pc = "loaded"
  /\ LET symbolled == initialize_symbols_from_ram(ram_data)
         mapped    == initialize_from_ram([ ram |-> symbolled, grid |-> tile_grid ])
     IN  /\ ram_data' = mapped.ram
         /\ tile_grid' = mapped.grid
  /\ pc' = "idle"
  /\ last_op' = Op("render", 0, last_op.key)
  /\ UNCHANGED << config, disk, pending, error, steps, probe >>

(* MapContainer.add_top / add_bottom / add_left / add_right *)
Expand(side) ==
  /\ Idle
  /\ side \in { "top", "bottom" } => ram_data.y_end - ram_data.y_start < MaxSpan
  /\ side \in { "left", "right" } => ram_data.x_end - ram_data.x_start < MaxSpan
  /\ LET grown == CASE side = "top" -> add_top(GuiState)
                    [] side = "bottom" -> add_bottom(GuiState)
                    [] side = "left" -> add_left(GuiState)
                    [] OTHER -> add_right(GuiState)
     IN  /\ ram_data' = grown.ram
         /\ tile_grid' = grown.grid
  /\ error' = ""
  /\ last_op' = Op("add", 0, side)
  /\ steps' = steps + 1
  /\ UNCHANGED << config, disk, pc, pending, probe >>

(* MapContainer._on_keypress with a key that is no arrow or escape key *)
KeyPress(string) ==
  /\ pc = "idle" /\ steps < MaxSteps
  /\ ram_data' = IF IsAlpha(string)
                   THEN [ram_data EXCEPT !.held_buttons = @ \cup { Upper(string) }]
                   ELSE ram_data
  /\ error' = ""
  /\ last_op' = Op("keypress", 0, string)
  /\ steps' = steps + 1
  /\ UNCHANGED << config, tile_grid, disk, pc, pending, probe >>

(* MapContainer._on_keyrelease: set.remove raises KeyError for an absent key *)
KeyRelease(string) ==
  /\ pc = "idle" /\ steps < MaxSteps
  /\ IF IsAlpha(string) /\ Upper(string) \notin ram_data.held_buttons
       THEN error' = "KeyError" /\ UNCHANGED ram_data
       ELSE /\ error' = ""
            /\ ram_data' = IF IsAlpha(string)
                             THEN [ram_data EXCEPT !.held_buttons = @ \ { Upper(string) }]
                             ELSE ram_data
  /\ last_op' = Op("keyrelease", 0, string)
  /\ steps' = steps + 1
  /\ UNCHANGED << config, tile_grid, disk, pc, pending, probe >>

(* TileButton._on_press; a press that is not consumed arms the button *)
Press(pos) ==
  /\ Idle
  /\ pos \in DOMAIN tile_grid
  /\ LET result == on_press(GuiState, pos)
     IN  /\ ram_data' = result.ram
         /\ error' = result.raised
         /\ pending' = IF result.return_value THEN 0 ELSE pos
  /\ last_op' = Op("press", pos, "")
  /\ steps' = steps + 1
  /\ UNCHANGED << config, tile_grid, disk, pc, probe >>

(* the pointer is released over the armed button: "toggled", _on_toggle *)
Click ==
  /\ pc = "idle"
  /\ pending # 0
  /\ LET toggled == on_toggle(GuiState, pending)
     IN  /\ ram_data' = toggled.ram
         /\ tile_grid' = toggled.grid
  /\ pending' = 0
  /\ error' = ""
  /\ last_op' = Op("toggle", pending, "click")
  /\ UNCHANGED << config, disk, pc, steps, probe >>

(* the pointer leaves the armed button before the release: no "toggled" *)
Unpress ==
  /\ pc = "idle"
  /\ pending # 0
  /\ pending' = 0
  /\ last_op' = Op("unpress", pending, "")
  /\ UNCHANGED << ram_data, config, tile_grid, disk, pc, error, steps, probe >>

(* the focused button is activated from the keyboard: "toggled", _on_toggle *)
KeyToggle(pos) ==
  /\ Idle
  /\ pos \in DOMAIN tile_grid
  /\ LET toggled == on_toggle(GuiState, pos)
     IN  /\ ram_data' = toggled.ram
         /\ tile_grid' = toggled.grid
  /\ error' = ""
  /\ last_op' = Op("toggle", pos, "key")
  /\ steps' = steps + 1
  /\ UNCHANGED << config, disk, pc, pending, probe >>

(* the user types into the Gtk.Entry of a SymbolWidget *)
EditSymbol(character, text) ==
  /\ Idle
  /\ character \in DOMAIN ram_data.symbols
  /\ ram_data.symbols[character].bound
  /\ ram_data.symbols[character].text # text
  /\ ram_data' = [ram_data EXCEPT !.symbols[character].text = text]
  /\ error' = ""
  /\ last_op' = Op("edit", 0, character)
  /\ steps' = steps + 1
  /\ UNCHANGED << config, tile_grid, disk, pc, pending, probe >>

(* OptionSideBar._on_texture_row_selected *)
SelectTexture(name) ==
  /\ Idle
  /\ name \in DOMAIN ram_data.textures
  /\ name # ram_data.selected_texture
  /\ ram_data' = [ram_data EXCEPT !.selected_texture = name]
  /\ error' = ""
  /\ last_op' = Op("select", 0, name)
  /\ steps' = steps + 1
  /\ UNCHANGED << config, tile_grid, disk, pc, pending, probe >>

Next ==
  \/ Startup
  \/ New
  \/ \E path \in SavePaths : Save(path)
  \/ \E path \in LoadPaths : Load(path)
  \/ Render
  \/ \E side \in { "top", "bottom", "left", "right" } : Expand(side)
  \/ \E string \in KeyStrings : KeyPress(string)
  \/ \E string \in KeyStrings : KeyRelease(string)
  \/ \E pos \in DOMAIN tile_grid : Press(pos)
  \/ Click
  \/ Unpress
  \/ \E pos \in DOMAIN tile_grid : KeyToggle(pos)
  \/ \E character \in EditLetters, text \in EditTexts : EditSymbol(character, text)
  \/ \E name \in DOMAIN ram_data.textures : SelectTexture(name)

Spec == Init /\ [][Next]_vars

----------------------------------------------------------------------------
(* TileSpec: the TileData methods called on their own.  probe.origin is the *)
(* tile the calls started from, probe.tile the tile they produced,          *)
(* probe.args the arguments of the apply_letter_tags calls made so far and  *)
(* probe.record the record built by to_dict or handed to the constructor.   *)

ProbeLetters == { "A", "B", "C" }
ProbeTextures == { "", EMPTY_TEXTURE, "grass" }

ProbeTiles ==
  [ x : { -1, 0, 2 }, y : { 0, 1 }, enabled : BOOLEAN,
    tags : SUBSET ProbeLetters, texture : ProbeTextures ]

(* tile records with any subset of the five keys *)
TileRecords ==
  { [k \in keys |-> full[k]] :
      keys \in SUBSET { "x", "y", "enabled", "tags", "texture" },
      full \in [ x : { 2 }, y : { -1 }, enabled : BOOLEAN,
                 tags : { { "A" } }, texture : { "grass" } ] }

TileInit ==
  /\ ram_data = RamData
  /\ config = Config(0, 0, 0, 0)
  /\ tile_grid = EmptyDict
  /\ disk = OtherFile("missing")
  /\ pc = "boot"
  /\ pending = 0
  /\ error = ""
  /\ last_op = Op("init", 0, "")
  /\ steps = 0
  /\ \E tile \in ProbeTiles :
       probe = [ call |-> "", tile |-> tile, origin |-> tile,
                 args |-> << >>, record |-> EmptyDict ]

ProbeFrame == UNCHANGED << ram_data, config, tile_grid, disk, pc, pending, error, last_op, steps >>

(* tile.apply_letter_tags(tags), at most twice in a row *)
ProbeApply(tags) ==
  /\ probe.call \in { "", "apply_letter_tags" }
  /\ Len(probe.args) < 2
  /\ probe' = [probe EXCEPT !.call = "apply_letter_tags",
                            !.tile = apply_letter_tags(@, tags),
                            !.args = Append(@, tags)]
  /\ ProbeFrame

(* record = tile.to_dict() *)
ProbeEncode ==
  /\ probe.call = ""
  /\ probe' = [probe EXCEPT !.call = "to_dict", !.record = TileData_to_dict(probe.tile)]
  /\ ProbeFrame

(* TileData(state=record), TileData().from_dict(record), or the same after  *)
(* the record went through yaml.dump and yaml.load                          *)
ProbeDecode(via) ==
  /\ probe.call = "to_dict"
  /\ probe' =
       [probe EXCEPT
          !.call = via,
          !.tile = CASE via = "round_trip_from_dict" -> TileData_from_dict(probe.record)
                     [] via = "round_trip_yaml" ->
                          TileData_init(0, 0, FALSE,
                            Some(yaml_construct_tile(yaml_represent_tile(probe.record))))
                     [] OTHER -> TileData_init(0, 0, FALSE, Some(probe.record))]
  /\ ProbeFrame

(* TileData(state=record) for a record read from a file, as in              *)
(* MapSaveData.from_dict line 275                                           *)
ProbeDecodeRecord(record) ==
  /\ probe.call = ""
  /\ probe' = [probe EXCEPT !.call = "TileData(state)", !.record = record,
                            !.tile = TileData_init(0, 0, FALSE, Some(record))]
  /\ ProbeFrame

(* TileData(x, y), as in MapContainer.add_tile_button line 524 *)
ProbeConstruct(x, y) ==
  /\ probe.call = ""
  /\ probe' = [probe EXCEPT !.call = "TileData(x, y)",
                            !.tile = TileData_init(x, y, FALSE, None)]
  /\ ProbeFrame

RoundTrips == { "round_trip_init", "round_trip_from_dict", "round_trip_yaml" }

TileNext ==
  \/ \E tags \in SUBSET ProbeLetters : ProbeApply(tags)
  \/ ProbeEncode
  \/ \E via \in RoundTrips : ProbeDecode(via)
  \/ \E record \in TileRecords : ProbeDecodeRecord(record)
  \/ \E x \in { -1, 2 }, y \in { 0, 1 } : ProbeConstruct(x, y)

TileSpec == TileInit /\ [][TileNext]_vars

----------------------------------------------------------------------------
(* ExportSpec: the program is started, loads one save file whose tile list  *)
(* is any list of at most MaxFileTiles tiles, and is then edited and saved. *)

FileCoords == { << -1, 0 >>, << 1, 1 >>, << 0, -1 >>, << 2, 0 >> }

FileTiles ==
  { [ x |-> c[1], y |-> c[2], enabled |-> e, tags |-> YamlSet({}), texture |-> "" ] :
      c \in FileCoords, e \in BOOLEAN }

GeneratedFiles ==
  { DictFile({}, [ tiles |-> tiles ]) :
      tiles \in UNION { [1..n -> FileTiles] : n \in 0..MaxFileTiles } }

GeneratedPath == [ folder |-> MapsFolder, name |-> "generated.yaml" ]

LoadGenerated ==
  /\ last_op.name = "startup"
  /\ \E file \in GeneratedFiles : LoadFile(GeneratedPath, file)

ExportNext ==
  \/ Startup
  \/ LoadGenerated
  \/ Render
  \/ \E pos \in DOMAIN tile_grid : KeyToggle(pos)
  \/ \E path \in SavePaths : Save(path)

ExportSpec == Init /\ [][ExportNext]_vars

----------------------------------------------------------------------------
(* BootSpec: the program is started over any listing of the textures        *)
(* directory with at most MaxDirFiles entries, then textures are selected   *)
(* and the map is reset.  probe.listing is the listing iterdir() returned.  *)

MaxDirFiles == 3

DirEntry(name, stem, is_file) ==
  [ stem |-> stem, absolute |-> << "/app/textures/", name >>, is_file |-> is_file ]

DirEntries ==
  { DirEntry("grass.png", "grass", TRUE), DirEntry("grass.jpg", "grass", TRUE),
    DirEntry("stone.png", "stone", TRUE), DirEntry("Empty.png", "Empty", TRUE),
    DirEntry("old", "old", FALSE) }

(* iterdir() yields each entry of the directory once, in any order *)
TextureDirs ==
  { listing \in UNION { [1..n -> DirEntries] : n \in 0..MaxDirFiles } :
      \A i, j \in DOMAIN listing : i # j => listing[i] # listing[j] }

(* SimpleGameMapper.load over the given listing *)
Boot(listing) ==
  /\ pc = "boot"
  /\ LET textured == [ ram  |-> TextureManager_load(ram_data, listing),
                       grid |-> tile_grid ]
         mapped   == initialize_default_grid(textured, config)
     IN  /\ ram_data' = initialize_symbols(mapped.ram)
         /\ tile_grid' = mapped.grid
  /\ pc' = "idle"
  /\ error' = ""
  /\ last_op' = Op("startup", 0, "")
  /\ probe' = [ call |-> "TextureManager.load", listing |-> listing ]
  /\ UNCHANGED << config, disk, pending, steps >>

BootNext ==
  \/ \E listing \in TextureDirs : Boot(listing)
  \/ \E name \in DOMAIN ram_data.textures : SelectTexture(name)
  \/ New

BootSpec == Init /\ [][BootNext]_vars

----------------------------------------------------------------------------
(* RoundTripSpec: the program is started, edited, saved and loaded, with    *)
(* TopMenuBar._on_load_pressed taken as one step: disk_to_ram, then         *)
(* _symbol_load_func() and _map_load_func() when it raised nothing.         *)

LoadRendered(path) ==
  /\ Idle
  /\ LET named     == [ram_data EXCEPT !.last_save_folder = path.folder,
                                       !.last_save_name = path.name]
         result    == disk_to_ram(named, FileAt(path, disk))
         symbolled == initialize_symbols_from_ram(result.ram)
         mapped    == initialize_from_ram([ ram |-> symbolled, grid |-> tile_grid ])
     IN  /\ error' = result.raised
         /\ ram_data' = IF result.raised = "" THEN mapped.ram ELSE result.ram
         /\ tile_grid' = IF result.raised = "" THEN mapped.grid ELSE tile_grid
  /\ last_op' = Op("load", 0, path.name)
  /\ steps' = steps + 1
  /\ UNCHANGED << config, disk, pc, pending, probe >>

RoundTripNext ==
  \/ Startup
  \/ \E path \in SavePaths : Save(path)
  \/ \E path \in LoadPaths : LoadRendered(path)
  \/ \E string \in KeyStrings : KeyPress(string)
  \/ \E pos \in DOMAIN tile_grid : Press(pos)
  \/ Click
  \/ Unpress
  \/ \E pos \in DOMAIN tile_grid : KeyToggle(pos)
  \/ \E character \in EditLetters, text \in EditTexts : EditSymbol(character, text)
  \/ \E name \in DOMAIN ram_data.textures : SelectTexture(name)

RoundTripSpec == Init /\ [][RoundTripNext]_vars

----------------------------------------------------------------------------
(* EditorSpec: runs in which the only save file is the one the program has  *)
(* written: startup, New, expansions, key presses, tile presses and         *)
(* toggles, Save, and Load of the program's own save file.                  *)

OwnPath == [ folder |-> SavePath.folder, name |-> SavePath.name ]

EditorNext ==
  \/ Startup
  \/ New
  \/ \E side \in { "top", "bottom", "left", "right" } : Expand(side)
  \/ \E path \in SavePaths : Save(path)
  \/ LoadRendered(OwnPath)
  \/ \E string \in KeyStrings : KeyPress(string)
  \/ \E pos \in DOMAIN tile_grid : Press(pos)
  \/ Click
  \/ Unpress
  \/ \E pos \in DOMAIN tile_grid : KeyToggle(pos)

EditorSpec == Init /\ [][EditorNext]_vars

----------------------------------------------------------------------------
(* VerifySpec: verify_save_state and MapSaveData.from_dict called on their  *)
(* own on a save record.  probe.state is the record, probe.verified the     *)
(* value verify_save_state returned, probe.payload what from_dict left in   *)
(* the MapSaveData and probe.raised the exception it raised.                *)

BoundKeys == { "x_start", "x_end", "y_start", "y_end" }
SaveKeys == BoundKeys \cup { "tiles", "symbols" }

BoundValues == { -1, 0, 2 }

RawTileLists ==
  { << >>,
    << [ x |-> 2, y |-> 0, enabled |-> TRUE, tags |-> { "A" }, texture |-> "" ] >> }

RawSymbolDicts ==
  { EmptyDict, [ A |-> [ value |-> "door" ] ], [ B |-> [ note |-> "door" ] ] }

(* save records with any subset of the six keys, each present key holding   *)
(* either a value of the expected type or a value of another type           *)
SaveStates ==
  { [ fields   |-> [k \in typed |->
                      CASE k = "tiles" -> full.tiles
                        [] k = "symbols" -> full.symbols
                        [] k = "x_start" -> full.x_start
                        [] k = "x_end" -> full.x_end
                        [] k = "y_start" -> full.y_start
                        [] OTHER -> full.y_end],
      mistyped |-> wrong ] :
      typed \in SUBSET SaveKeys,
      wrong \in { w \in SUBSET SaveKeys : Cardinality(w) <= 1 },
      full  \in [ tiles : RawTileLists, symbols : RawSymbolDicts,
                  x_start : BoundValues, x_end : BoundValues,
                  y_start : BoundValues, y_end : BoundValues ] }

NoPayload == [ raised |-> "", value |-> NewMapSaveData ]

VerifyInit ==
  /\ ram_data = RamData
  /\ config = Config(0, 0, 0, 0)
  /\ tile_grid = EmptyDict
  /\ disk = OtherFile("missing")
  /\ pc = "boot"
  /\ pending = 0
  /\ error = ""
  /\ last_op = Op("init", 0, "")
  /\ steps = 0
  /\ \E state \in SaveStates :
       /\ state.mistyped \cap DOMAIN state.fields = {}
       /\ probe = [ call |-> "", state |-> state, verified |-> FALSE,
                    payload |-> NoPayload ]

(* verify_save_state(state) *)
ProbeVerify ==
  /\ probe.call = ""
  /\ probe' = [probe EXCEPT !.call = "verify_save_state",
                            !.verified = verify_save_state(probe.state)]
  /\ ProbeFrame

(* MapSaveData().from_dict(state) *)
ProbeFromDict ==
  /\ probe.call = ""
  /\ probe' = [probe EXCEPT !.call = "from_dict",
                            !.payload = MapSaveData_from_dict(probe.state)]
  /\ ProbeFrame

VerifyNext ==
  \/ ProbeVerify
  \/ ProbeFromDict

VerifySpec == VerifyInit /\ [][VerifyNext]_vars

----------------------------------------------------------------------------
(* Properties *)

SetMin(S) == CHOOSE m \in S : \A n \in S : m <= n
SetMax(S) == CHOOSE m \in S : \A n \in S : m >= n

(* the part of RamData that SaveManager.disk_to_ram writes *)
RamCore(ram) ==
  [ tiles |-> ram.tiles, x_start |-> ram.x_start, x_end |-> ram.x_end,
    y_start |-> ram.y_start, y_end |-> ram.y_end, symbols |-> ram.symbols,
    save_tile_reference |-> ram.save_tile_reference ]

(* the file the last Load read *)
LoadedFile ==
  FileAt([ folder |-> ram_data.last_save_folder, name |-> ram_data.last_save_name ], disk)

InvalidPayload(file) ==
  /\ file.kind = "dict"
  /\ \/ file.mistyped # {}
     \/ Get(file.doc, "x_start", 0) > Get(file.doc, "x_end", 0)
     \/ Get(file.doc, "y_start", 0) > Get(file.doc, "y_end", 0)

SaveDone == last_op.name = "save" /\ error = ""

EnabledTiles(ram) == SelectSeq(ram.tiles, LAMBDA tile : tile.enabled)

(* C1: an import of a file whose payload fails validation (x_start > x_end, *)
(* y_start > y_end or a wrongly typed field) leaves the tiles, the four     *)
(* bounds, the symbols and the coordinate index of RamData as they were.    *)
C1_FailedValidationLeavesRam ==
  [][ (last_op'.name = "load" /\ InvalidPayload(LoadedFile'))
        => RamCore(ram_data') = RamCore(ram_data) ]_vars

(* C2: the exported bounds are x_start = min(0, least x of an enabled      *)
(* tile), x_end = max(0, greatest x of an enabled tile), the same for y,    *)
(* whatever the order of the tiles, and every exported tile lies inside.    *)
C2_ExportBounds ==
  SaveDone =>
    LET exported == EnabledTiles(ram_data)
        xs  == { exported[i].x : i \in DOMAIN exported } \cup { 0 }
        ys  == { exported[i].y : i \in DOMAIN exported } \cup { 0 }
        doc == disk.doc
    IN  /\ doc.x_start = SetMin(xs) /\ doc.x_end = SetMax(xs)
        /\ doc.y_start = SetMin(ys) /\ doc.y_end = SetMax(ys)
        /\ \A i \in DOMAIN doc.tiles :
             /\ doc.x_start <= doc.tiles[i].x /\ doc.tiles[i].x <= doc.x_end
             /\ doc.y_start <= doc.tiles[i].y /\ doc.tiles[i].y <= doc.y_end

(* an enabled tile right of 0 is listed before an enabled tile left of 0,   *)
(* and no enabled tile lies above or below row 0 *)
C2_Witness ==
  /\ SaveDone
  /\ \E i, j \in DOMAIN ram_data.tiles :
       /\ i < j
       /\ ram_data.tiles[i].enabled /\ ram_data.tiles[i].x > 0
       /\ ram_data.tiles[j].enabled /\ ram_data.tiles[j].x < 0
  /\ \A i \in DOMAIN ram_data.tiles : ram_data.tiles[i].enabled => ram_data.tiles[i].y = 0
  /\ disk.doc.y_start = 0 /\ disk.doc.y_end = 0

(* C3: export writes exactly the enabled tiles, in their order in the tile  *)
(* collection; with no enabled tile it writes bounds (0,0,0,0) and no tile. *)
C3_ExportEnabledTilesInOrder ==
  SaveDone =>
    LET exported == EnabledTiles(ram_data)
        doc == disk.doc
    IN  /\ doc.tiles = [i \in DOMAIN exported |->
                          [ x |-> exported[i].x, y |-> exported[i].y,
                            enabled |-> TRUE, tags |-> YamlSet(exported[i].tags),
                            texture |-> exported[i].texture ]]
        /\ exported = << >> =>
             /\ doc.tiles = << >>
             /\ doc.x_start = 0 /\ doc.x_end = 0 /\ doc.y_start = 0 /\ doc.y_end = 0

(* a disabled tile stands between two enabled tiles of the collection *)
C3_Witness ==
  /\ SaveDone
  /\ \E i, j, k \in DOMAIN ram_data.tiles :
       /\ i < j /\ j < k
       /\ ram_data.tiles[i].enabled /\ ~ram_data.tiles[j].enabled /\ ram_data.tiles[k].enabled
       /\ ram_data.tiles[i].x # ram_data.tiles[k].x
  /\ Len(disk.doc.tiles) < Len(ram_data.tiles)

(* C4: export writes a symbol entry for a letter exactly when the letter's  *)
(* get_value() is non-empty; 26 blank entries export an empty mapping.      *)
C4_ExportNonEmptySymbols ==
  SaveDone =>
    LET filled == { c \in DOMAIN ram_data.symbols : ram_data.symbols[c].text # "" }
    IN  /\ disk.doc.symbols = [c \in filled |-> [ value |-> ram_data.symbols[c].text ]]
        /\ filled = {} => disk.doc.symbols = EmptyDict

(* 26 entries, one with text, the others blank *)
C4_Witness ==
  /\ SaveDone
  /\ Cardinality(DOMAIN ram_data.symbols) = 26
  /\ ram_data.symbols["A"].text = "door"
  /\ ram_data.symbols["B"].text = ""
  /\ DOMAIN disk.doc.symbols = { "A" }

(* C5: after an import the coordinate index has exactly one entry for each  *)
(* (x,y) of the loaded tile list, none from an earlier import, and each     *)
(* entry holds the list index of the last tile with those coordinates.      *)
C5_IndexPointsToLastOccurrence ==
  pc = "loaded" =>
    LET tiles == ram_data.tiles
        reference == ram_data.save_tile_reference
    IN  /\ DOMAIN reference = { CoordKey(tiles[i].x, tiles[i].y) : i \in DOMAIN tiles }
        /\ \A i \in DOMAIN tiles :
             reference[CoordKey(tiles[i].x, tiles[i].y)] =
               SetMax({ j \in DOMAIN tiles :
                          tiles[j].x = tiles[i].x /\ tiles[j].y = tiles[i].y }) - 1

(* the loaded list has two tiles with the same coordinates, and the program *)
(* saved a tile at another coordinate before this import                    *)
C5_Witness ==
  /\ pc = "loaded"
  /\ \E i, j \in DOMAIN ram_data.tiles :
       /\ i < j
       /\ ram_data.tiles[i].x = ram_data.tiles[j].x
       /\ ram_data.tiles[i].y = ram_data.tiles[j].y
       /\ ram_data.save_tile_reference[CoordKey(ram_data.tiles[i].x, ram_data.tiles[i].y)] = j - 1
  /\ Cardinality(DOMAIN ram_data.save_tile_reference) < Len(ram_data.tiles)


(* C6: in every state reached by tile presses and toggles, key presses and  *)
(* releases, expansions, New and Load, a tile with enabled = false has no   *)
(* tags.                                                                    *)
C6_DisabledTilesHaveNoTags ==
  \A i \in DOMAIN ram_data.tiles :
    ~ram_data.tiles[i].enabled => ram_data.tiles[i].tags = {}

(* C7: when _on_toggle sets a tile's enabled flag to false, the tile has no *)
(* tags when the handler returns and its x, y and texture are unchanged.    *)
C7_ToggleOffClearsTags ==
  [][ (last_op'.name = "toggle" /\ ~ram_data'.tiles[last_op'.tile].enabled)
        => LET was == ram_data.tiles[last_op'.tile]
               now == ram_data'.tiles[last_op'.tile]
           IN  /\ now.tags = {}
               /\ now.x = was.x /\ now.y = was.y /\ now.texture = was.texture ]_vars

(* a textured tile of a loaded map has just been toggled off *)
C7_Witness ==
  /\ last_op.name = "toggle"
  /\ ~ram_data.tiles[last_op.tile].enabled
  /\ ram_data.tiles[last_op.tile].texture = "grass"
  /\ ram_data.tiles[last_op.tile].tags = {}
  /\ ~tile_grid[last_op.tile]

(* C8: a tile decoded from a record that lacks `enabled`, the record with   *)
(* no field included, has enabled = true; a tile constructed without a      *)
(* record has enabled = false.                                              *)
C8_MissingEnabledDecodesTrue ==
  /\ (probe.call = "TileData(state)" /\ "enabled" \notin DOMAIN probe.record)
       => probe.tile.enabled
  /\ probe.call = "TileData(x, y)" => ~probe.tile.enabled

(* C9: apply_letter_tags called twice in a row with the same non-empty      *)
(* letter set leaves the tile's tags as they were.                          *)
C9_ApplyTwiceRestoresTags ==
  ( /\ probe.call = "apply_letter_tags"
    /\ Len(probe.args) = 2
    /\ probe.args[1] = probe.args[2]
    /\ probe.args[1] # {} )
    => probe.tile.tags = probe.origin.tags

(* the repeated letter set holds a letter the tile had and one it had not *)
C9_Witness ==
  /\ probe.call = "apply_letter_tags"
  /\ Len(probe.args) = 2
  /\ probe.args[1] = probe.args[2]
  /\ probe.args[1] \cap probe.origin.tags # {}
  /\ probe.args[1] \ probe.origin.tags # {}
  /\ probe.tile.tags = probe.origin.tags

(* C10: decoding the record produced by to_dict, through TileData(state=),  *)
(* from_dict or a YAML round trip, gives a tile with the same x, y,         *)
(* enabled, texture and tag set.                                            *)
C10_TileRoundTrip ==
  probe.call \in RoundTrips
    => /\ probe.tile.x = probe.origin.x
       /\ probe.tile.y = probe.origin.y
       /\ probe.tile.enabled = probe.origin.enabled
       /\ probe.tile.texture = probe.origin.texture
       /\ probe.tile.tags = probe.origin.tags

(* a disabled, tagged, textured tile away from (0,0) went through the trip *)
C10_Witness ==
  /\ probe.call \in RoundTrips
  /\ probe.origin.x # 0 /\ probe.origin.y # 0
  /\ ~probe.origin.enabled
  /\ probe.origin.tags = { "A", "B" }
  /\ probe.origin.texture = "grass"
  /\ probe.tile = probe.origin

(* C11: verify_save_state fails for every record with x_start > x_end or    *)
(* y_start > y_end, a missing bound read as 0, and passes for every record  *)
(* whose present fields have the expected types and whose bounds are so     *)
(* ordered, the all-default record and records without `tiles` included.    *)
C11_VerifyOrderedBounds ==
  probe.call = "verify_save_state" =>
    LET state == probe.state
        bound(k) == Get(state.fields, k, 0)
        typed_bounds == state.mistyped \cap BoundKeys = {}
        ordered == bound("x_start") <= bound("x_end") /\ bound("y_start") <= bound("y_end")
    IN  /\ (typed_bounds /\ ~ordered) => ~probe.verified
        /\ (state.mistyped = {} /\ ordered) => probe.verified

(* a record without `tiles` and without x_start, with equal y bounds, passed *)
C11_Witness ==
  /\ probe.call = "verify_save_state"
  /\ probe.state.mistyped = {}
  /\ DOMAIN probe.state.fields = { "x_end", "y_start", "y_end", "symbols" }
  /\ probe.state.fields.x_end = 2
  /\ probe.state.fields.y_start = probe.state.fields.y_end
  /\ probe.verified

(* the symbol records of a file's payload that have no `value` key *)
SymbolsLackingValue(file) ==
  LET symbols == Get(file.doc, "symbols", EmptyDict)
  IN  { c \in DOMAIN symbols : "value" \notin DOMAIN symbols[c] }

(* C12: an import of a payload that passes validation but holds a symbol    *)
(* record without the `value` key, the record with no key at all included,  *)
(* ends with an error and loads none of the file's entries.                 *)
C12_MissingValueFailsImport ==
  ( /\ last_op.name = "load"
    /\ LoadedFile.kind = "dict"
    /\ ~InvalidPayload(LoadedFile)
    /\ SymbolsLackingValue(LoadedFile) # {} )
    => /\ error # ""
       /\ pc = "idle"

(* the part of RamData that neither SaveManager method writes *)
RamRest(ram) ==
  [ textures |-> ram.textures, held_buttons |-> ram.held_buttons,
    selected_texture |-> ram.selected_texture ]

(* C13: an import that ends with an error raised while the file is opened,  *)
(* read, parsed or decoded leaves the tiles, the bounds, the symbols and    *)
(* the coordinate index of RamData unchanged, and so does an export that    *)
(* fails to open its target (the handler has stored the chosen folder and   *)
(* name before it calls the SaveManager).                                   *)
C13_FailedTransferLeavesRam ==
  [][ /\ (last_op'.name = "load" /\ error' # "")
           => RamCore(ram_data') = RamCore(ram_data)
      /\ (last_op'.name = "save" /\ error' = "OSError")
           => /\ RamCore(ram_data') = RamCore(ram_data)
              /\ RamRest(ram_data') = RamRest(ram_data) ]_vars

(* a file with a symbol record without `value` failed to decode after an    *)
(* earlier import had filled the tiles, the symbols and the index           *)
C13_Witness ==
  /\ last_op.name = "load"
  /\ error = "KeyError"
  /\ SymbolsLackingValue(LoadedFile) # {}
  /\ Len(ram_data.tiles) = 3
  /\ ram_data.x_end = 1
  /\ ram_data.symbols["A"].text = "door"
  /\ Cardinality(DOMAIN ram_data.save_tile_reference) = 2

(* what a save file decodes to: nothing for an empty document or a payload  *)
(* that fails validation, else one tile per tile record, the bounds with 0  *)
(* for a missing one, and one unbound symbol per symbol record              *)
DecodedPayload(file) ==
  IF file.kind # "dict" \/ InvalidPayload(file)
    THEN [ tiles |-> << >>, x_start |-> 0, x_end |-> 0, y_start |-> 0, y_end |-> 0,
           symbols |-> EmptyDict ]
    ELSE LET records == Get(file.doc, "tiles", << >>)
             symbols == Get(file.doc, "symbols", EmptyDict)
         IN  [ tiles   |-> [i \in DOMAIN records |->
                             IF DOMAIN records[i] = {}
                               THEN [ x |-> 0, y |-> 0, enabled |-> FALSE,
                                      tags |-> {}, texture |-> "" ]
                               ELSE [ x |-> Get(records[i], "x", 0),
                                      y |-> Get(records[i], "y", 0),
                                      enabled |-> Get(records[i], "enabled", TRUE),
                                      tags |-> DOMAIN Get(records[i], "tags", EmptyDict),
                                      texture |-> Get(records[i], "texture", "") ]],
               x_start |-> Get(file.doc, "x_start", 0),
               x_end   |-> Get(file.doc, "x_end", 0),
               y_start |-> Get(file.doc, "y_start", 0),
               y_end   |-> Get(file.doc, "y_end", 0),
               symbols |-> [c \in DOMAIN symbols |->
                             [ character |-> c, bound |-> FALSE, text |-> "",
                               default_value |-> Get(symbols[c], "value", "") ]] ]

(* C14: an import that succeeds sets the tiles, the four bounds and the     *)
(* symbols of RamData to those of the decoded payload and rebuilds the      *)
(* coordinate index from the new tiles; the texture catalog, the held       *)
(* letters and the selected texture are unchanged, and the save folder and  *)
(* name are the ones the handler stored before the call.                    *)
C14_ImportReplacesCore ==
  [][ (last_op'.name = "load" /\ error' = "")
        => LET payload == DecodedPayload(LoadedFile')
               tiles == ram_data'.tiles
               reference == ram_data'.save_tile_reference
           IN  /\ tiles = payload.tiles
               /\ ram_data'.x_start = payload.x_start /\ ram_data'.x_end = payload.x_end
               /\ ram_data'.y_start = payload.y_start /\ ram_data'.y_end = payload.y_end
               /\ ram_data'.symbols = payload.symbols
               /\ DOMAIN reference = { CoordKey(tiles[i].x, tiles[i].y) : i \in DOMAIN tiles }
               /\ \A key \in DOMAIN reference :
                    /\ reference[key] + 1 \in DOMAIN tiles
                    /\ CoordKey(tiles[reference[key] + 1].x, tiles[reference[key] + 1].y) = key
               /\ RamRest(ram_data') = RamRest(ram_data)
               /\ ram_data'.last_save_name = last_op'.key
               /\ ram_data'.last_save_folder \in { MapsFolder, SavePath.folder } ]_vars

(* a file with tiles and a symbol was imported while a letter was held and  *)
(* a texture other than Empty was selected                                  *)
C14_Witness ==
  /\ pc = "loaded"
  /\ error = ""
  /\ last_op.name = "load"
  /\ Len(ram_data.tiles) = 3
  /\ DOMAIN ram_data.symbols = { "A" }
  /\ ram_data.held_buttons # {}
  /\ ram_data.selected_texture = "grass"
  /\ DOMAIN ram_data.textures = { EMPTY_TEXTURE, "grass" }

(* C15: after startup and after every completed user action (New, Save,     *)
(* Load, tile press, expansion) the symbol registry of RamData has exactly  *)
(* 26 entries, one for each letter A to Z and no other key.                 *)
C15_TwentySixSymbols ==
  pc = "idle" =>
    /\ DOMAIN ram_data.symbols = { ascii_uppercase[i] : i \in DOMAIN ascii_uppercase }
    /\ Cardinality(DOMAIN ram_data.symbols) = 26

(* C16: with default bounds that are ordered in the configuration, every    *)
(* state reached through New, the four expansions and Load has              *)
(* x_start <= x_end and y_start <= y_end in RamData.                        *)
C16_BoundsOrdered ==
  ( /\ config.default_x_start <= config.default_x_end
    /\ config.default_y_start <= config.default_y_end )
    => /\ ram_data.x_start <= ram_data.x_end
       /\ ram_data.y_start <= ram_data.y_end

(* a map loaded with bounds x 0..1 has been expanded at the top *)
C16_Witness ==
  /\ last_op.name = "add"
  /\ ram_data.last_save_name = "twins.yaml"
  /\ ram_data.x_start = 0 /\ ram_data.x_end = 1
  /\ ram_data.y_start = -1 /\ ram_data.y_end = 0
  /\ Len(ram_data.tiles) = 5

(* C17: after TextureManager.load over any listing of the textures          *)
(* directory the catalog has an entry under "Empty" whose style rule has an *)
(* empty body and whose path is the lowercase placeholder, for the rest of  *)
(* the run.                                                                 *)
C17_EmptyTextureKept ==
  pc = "idle" =>
    /\ EMPTY_TEXTURE \in DOMAIN ram_data.textures
    /\ ram_data.textures[EMPTY_TEXTURE].css.body = ""
    /\ ram_data.textures[EMPTY_TEXTURE].path = "empty"

(* the regular files of a listing *)
RegularFiles(listing) == { i \in DOMAIN listing : listing[i].is_file }

(* C18: TextureManager.load over a directory with n regular files yields a  *)
(* catalog of exactly n + 1 entries: one per file, named by the file's base *)
(* name, plus the no-texture entry.                                         *)
C18_OneEntryPerFile ==
  (pc = "idle" /\ probe.call = "TextureManager.load") =>
    LET files == RegularFiles(probe.listing)
    IN  /\ Cardinality(DOMAIN ram_data.textures) = Cardinality(files) + 1
        /\ \A i \in files : probe.listing[i].stem \in DOMAIN ram_data.textures

(* C19: in every run SymbolData.get_value is only called on entries whose   *)
(* accessor is bound (a call on an unbound entry raises TypeError), and     *)
(* when a Load has rendered the map every loaded entry has been re-bound by *)
(* the symbol panel.                                                        *)
C19_GetValueAlwaysBound ==
  /\ error # "TypeError"
  /\ last_op.name = "render" =>
       \A c \in DOMAIN ram_data.symbols : ram_data.symbols[c].bound

(* C20: apply_letter_tags(L) on a tile with tag set T leaves the tag set    *)
(* equal to the symmetric difference of T and L (letters of L in T are      *)
(* removed, the other letters of L added, letters outside L untouched) and  *)
(* changes no other field of the tile.                                      *)
C20_ApplyIsSymmetricDifference ==
  (probe.call = "apply_letter_tags" /\ Len(probe.args) = 1) =>
    LET T == probe.origin.tags
        L == probe.args[1]
    IN  /\ probe.tile.tags = (T \ L) \cup (L \ T)
        /\ probe.tile.x = probe.origin.x
        /\ probe.tile.y = probe.origin.y
        /\ probe.tile.enabled = probe.origin.enabled
        /\ probe.tile.texture = probe.origin.texture

(* one letter was removed, one added and one left alone, on a tile with a   *)
(* texture                                                                  *)
C20_Witness ==
  /\ probe.call = "apply_letter_tags"
  /\ Len(probe.args) = 1
  /\ probe.origin.tags = { "A", "C" }
  /\ probe.args[1] = { "A", "B" }
  /\ probe.tile.tags = { "B", "C" }
  /\ probe.origin.texture = "grass"

(* the enabled tiles of RamData as a set of (x, y, tags, texture) *)
EnabledContent(ram) ==
  { [ x |-> ram.tiles[i].x, y |-> ram.tiles[i].y, tags |-> ram.tiles[i].tags,
      texture |-> ram.tiles[i].texture ] :
      i \in { j \in DOMAIN ram.tiles : ram.tiles[j].enabled } }

(* the text of each letter's symbol *)
SymbolTexts(ram) == [c \in DOMAIN ram.symbols |-> ram.symbols[c].text]

(* C21: a Save immediately followed by a Load of the written file, with the *)
(* re-render of symbols and map, preserves the set of enabled tiles with    *)
(* their coordinates, tags and texture and each letter's symbol text, and   *)
(* leaves in RamData the bounds that the export wrote.                      *)
C21_SaveLoadPreservesMap ==
  [][ ( /\ last_op.name = "save" /\ error = ""
        /\ last_op'.name = "load" /\ error' = ""
        /\ ram_data'.last_save_folder = SavePath.folder )
        => /\ EnabledContent(ram_data') = EnabledContent(ram_data)
           /\ SymbolTexts(ram_data') = SymbolTexts(ram_data)
           /\ ram_data'.x_start = disk.doc.x_start /\ ram_data'.x_end = disk.doc.x_end
           /\ ram_data'.y_start = disk.doc.y_start /\ ram_data'.y_end = disk.doc.y_end ]_vars

(* the written file, with three enabled tiles (two at the same coordinate), *)
(* tags, a texture and a symbol text, has been loaded back                  *)
C21_Witness ==
  /\ last_op.name = "load" /\ error = ""
  /\ ram_data.last_save_folder = SavePath.folder
  /\ disk.kind = "dict"
  /\ Len(disk.doc.tiles) = 3
  /\ Cardinality(EnabledContent(ram_data)) = 3
  /\ \E tile \in EnabledContent(ram_data) : tile.texture = "grass" /\ tile.tags = { "A" }
  /\ ram_data.symbols["A"].text = "door"
  /\ ram_data.x_start = 0 /\ ram_data.x_end = 1

(* the positions of the tiles of RamData that have coordinates (x, y) *)
TilesAt(ram, x, y) == { i \in DOMAIN ram.tiles : ram.tiles[i].x = x /\ ram.tiles[i].y = y }

C23_IndexEntriesValid ==
  \A key \in DOMAIN ram_data.save_tile_reference :
    LET i == ram_data.save_tile_reference[key]
    IN  /\ i + 1 \in DOMAIN ram_data.tiles
        /\ CoordKey(ram_data.tiles[i + 1].x, ram_data.tiles[i + 1].y) = key

(* C24: an export leaves the tile list and every tile's fields, the bounds, *)
(* the symbol registry, the coordinate index, the held letters and the      *)
(* selected texture of RamData as they were, also when the exported bounds  *)
(* differ from the bounds of RamData.                                       *)
C24_ExportLeavesRam ==
  [][ last_op'.name = "save"
        => /\ ram_data'.tiles = ram_data.tiles
           /\ ram_data'.x_start = ram_data.x_start /\ ram_data'.x_end = ram_data.x_end
           /\ ram_data'.y_start = ram_data.y_start /\ ram_data'.y_end = ram_data.y_end
           /\ ram_data'.symbols = ram_data.symbols
           /\ ram_data'.save_tile_reference = ram_data.save_tile_reference
           /\ ram_data'.held_buttons = ram_data.held_buttons
           /\ ram_data'.selected_texture = ram_data.selected_texture ]_vars

(* a map with bounds x 1..1 was exported with bounds x 0..1 while a letter  *)
(* was held                                                                 *)
C24_Witness ==
  /\ SaveDone
  /\ ram_data.x_start = 1 /\ ram_data.x_end = 1
  /\ disk.doc.x_start = 0 /\ disk.doc.x_end = 1
  /\ Len(disk.doc.tiles) = 1
  /\ ram_data.held_buttons # {}

(* C25: a press on a tile while letters are held toggles exactly the held   *)
(* letters in the tile's tags and leaves its texture unchanged whatever     *)
(* texture is selected; a press writes the selected texture to the tile     *)
(* only when no letter is held.                                             *)
C25_HeldLettersTagNotPaint ==
  [][ last_op'.name = "press"
        => LET was  == ram_data.tiles[last_op'.tile]
               now  == ram_data'.tiles[last_op'.tile]
               held == ram_data.held_buttons
           IN  /\ held # {} =>
                    /\ now.tags = (was.tags \ held) \cup (held \ was.tags)
                    /\ now.texture = was.texture
               /\ now.texture # was.texture =>
                    /\ held = {}
                    /\ now.texture = ram_data.selected_texture
               /\ held = {} => now.tags = was.tags ]_vars

(* a tile was pressed while A was held and the grass texture was selected *)
C25_Witness ==
  /\ last_op.name = "press"
  /\ ram_data.held_buttons = { "A" }
  /\ ram_data.selected_texture = "grass"
  /\ ram_data.tiles[last_op.tile].tags = { "A" }
  /\ ram_data.tiles[last_op.tile].texture = ""

(* C26: a press on an enabled tile is let through to the toggle exactly     *)
(* when no letter is held, the selected texture is "Empty" and the tile's   *)
(* texture is "" or "Empty"; every other press is consumed, and a tile      *)
(* that a click turns off carries no texture other than "" or "Empty"       *)
C26_PressLetThrough ==
  [][ /\ last_op'.name = "press" /\ tile_grid[last_op'.tile]
        => LET was == ram_data.tiles[last_op'.tile]
           IN  pending' # 0
                 <=> /\ ram_data.held_buttons = {}
                     /\ ram_data.selected_texture = EMPTY_TEXTURE
                     /\ was.texture \in { "", EMPTY_TEXTURE }
      /\ last_op'.name = "toggle" /\ last_op'.key = "click" /\ ~tile_grid'[last_op'.tile]
        => ram_data'.tiles[last_op'.tile].texture \in { "", EMPTY_TEXTURE } ]_vars

(* the coordinates of the row or column an expansion on `side` adds *)
NewLine(ram, side) ==
  CASE side = "top"    -> { << x, ram.y_start - 1 >> : x \in ram.x_start..ram.x_end }
    [] side = "bottom" -> { << x, ram.y_end + 1 >> : x \in ram.x_start..ram.x_end }
    [] side = "left"   -> { << ram.x_start - 1, y >> : y \in ram.y_start..ram.y_end }
    [] OTHER           -> { << ram.x_end + 1, y >> : y \in ram.y_start..ram.y_end }

(* C27: an expansion moves its own bound by one and no other, appends one   *)
(* disabled, untagged, untextured tile for each coordinate of the new row   *)
(* or column and nothing else, and leaves the tiles that existed unchanged  *)
C27_ExpansionAddsOneLine ==
  [][ last_op'.name = "add"
        => LET side  == last_op'.key
               line  == NewLine(ram_data, side)
               added == (Len(ram_data.tiles) + 1)..Len(ram_data'.tiles)
           IN  /\ ram_data'.y_start = ram_data.y_start - (IF side = "top" THEN 1 ELSE 0)
               /\ ram_data'.y_end = ram_data.y_end + (IF side = "bottom" THEN 1 ELSE 0)
               /\ ram_data'.x_start = ram_data.x_start - (IF side = "left" THEN 1 ELSE 0)
               /\ ram_data'.x_end = ram_data.x_end + (IF side = "right" THEN 1 ELSE 0)
               /\ Len(ram_data'.tiles) >= Len(ram_data.tiles)
               /\ SubSeq(ram_data'.tiles, 1, Len(ram_data.tiles)) = ram_data.tiles
               /\ \A i \in added :
                     /\ << ram_data'.tiles[i].x, ram_data'.tiles[i].y >> \in line
                     /\ ~ram_data'.tiles[i].enabled
                     /\ ram_data'.tiles[i].tags = {}
                     /\ ram_data'.tiles[i].texture = ""
               /\ \A c \in line :
                     Cardinality({ i \in added : << ram_data'.tiles[i].x,
                                                    ram_data'.tiles[i].y >> = c }) = 1 ]_vars

(* a row of two tiles was added below a map that holds an enabled tile *)
C27_Witness ==
  /\ last_op.name = "add" /\ last_op.key = "bottom"
  /\ ram_data.x_end - ram_data.x_start = 1
  /\ \E i \in DOMAIN ram_data.tiles : ram_data.tiles[i].enabled
  /\ Cardinality(TilesAt(ram_data, ram_data.x_start, ram_data.y_end)) = 1
  /\ Cardinality(TilesAt(ram_data, ram_data.x_end, ram_data.y_end)) = 1

(* C28: after a confirmed New the bounds are the configured defaults, the   *)
(* tiles are exactly one disabled, untagged, untextured tile for each       *)
(* coordinate of those bounds, the registry is 26 blank entries, and the    *)
(* texture catalog, held letters and selected texture are as before         *)
C28_NewResetsToDefaults ==
  [][ last_op'.name = "new"
        => /\ ram_data'.x_start = config.default_x_start
           /\ ram_data'.x_end = config.default_x_end
           /\ ram_data'.y_start = config.default_y_start
           /\ ram_data'.y_end = config.default_y_end
           /\ \A x \in config.default_x_start..config.default_x_end,
                 y \in config.default_y_start..config.default_y_end :
                 Cardinality(TilesAt(ram_data', x, y)) = 1
           /\ \A i \in DOMAIN ram_data'.tiles :
                 /\ ram_data'.tiles[i].x \in config.default_x_start..config.default_x_end
                 /\ ram_data'.tiles[i].y \in config.default_y_start..config.default_y_end
                 /\ ~ram_data'.tiles[i].enabled
                 /\ ram_data'.tiles[i].tags = {}
                 /\ ram_data'.tiles[i].texture = ""
           /\ DOMAIN ram_data'.symbols = { ascii_uppercase[i] : i \in DOMAIN ascii_uppercase }
           /\ Cardinality(DOMAIN ram_data'.symbols) = 26
           /\ \A c \in DOMAIN ram_data'.symbols :
                 /\ ram_data'.symbols[c].character = c
                 /\ ram_data'.symbols[c].default_value = ""
                 /\ get_value(ram_data'.symbols[c]) = [ raised |-> "", value |-> "" ]
           /\ RamRest(ram_data') = RamRest(ram_data) ]_vars

(* New was confirmed on a map that had been loaded from a file, with a      *)
(* letter held                                                              *)
C28_Witness ==
  /\ last_op.name = "new"
  /\ ram_data.save_tile_reference # EmptyDict
  /\ ram_data.held_buttons # {}

(* C29: every alphabetic key press and key release on the map grid is       *)
(* handled without an exception; a press adds the uppercase letter to the   *)
(* held set, a release takes it out, and a release of a letter that is not  *)
(* held leaves the set as it was                                            *)
C29_KeyEventsTrackHeld ==
  [][ last_op'.name \in { "keypress", "keyrelease" } /\ IsAlpha(last_op'.key)
        => /\ error' = ""
           /\ ram_data'.held_buttons =
                 IF last_op'.name = "keypress"
                   THEN ram_data.held_buttons \cup { Upper(last_op'.key) }
                   ELSE ram_data.held_buttons \ { Upper(last_op'.key) } ]_vars

====
